---- MODULE Spec2Model ----
(***************************************************************************)
(* PanZoom (src/unnamed/part_003): the pan/zoom controller of one rendered *)
(* SVG element.  The controller's fields, the element's style and          *)
(* listeners, the pending fit timer and the layout of the page are the     *)
(* state; every public method, every event handler and the timer callback  *)
(* is one action.                                                          *)
(*                                                                         *)
(* JavaScript numbers are modelled as exact rationals <<n, d>> in lowest   *)
(* terms with d > 0; <<1,0>>, <<-1,0>> and <<0,0>> stand for +Infinity,    *)
(* -Infinity and NaN, so that a division by zero is a value the checks can *)
(* see.  null is <<>> and undefined is <<0,0,0>>.                          *)
(***************************************************************************)
EXTENDS Integers, Sequences, FiniteSets, TLC

VARIABLES
    svgElement,            \* this.svgElement: "element", "null" or "undefined"
    options,               \* this.options
    currentZoom,           \* this.currentZoom
    currentPan,            \* this.currentPan {x, y}
    isDragging,            \* this.isDragging
    lastMousePos,          \* this.lastMousePos {x, y}
    initialPinchDistance,  \* this.initialPinchDistance (number or null)
    initialZoom,           \* this.initialZoom (number or null)
    style,                 \* the element's style: transform and cursor
    listeners,             \* listeners registered on the element and the buttons
    timers,                \* pending setTimeout callbacks
    dom,                   \* layout: parent container, sizes, position
    prevented,             \* whether the last event had preventDefault() called
    lastOp,                \* the last method called or event dispatched
    lastArgs,              \* the arguments it was given
    lastRet,               \* what it returned: "true", "false", "undefined", "throw"
    destroys,              \* number of destroy() calls so far
    touchEnded,            \* a touchend was handled and no touchstart since
    steps                  \* number of calls and events so far

vars == <<svgElement, options, currentZoom, currentPan, isDragging, lastMousePos,
          initialPinchDistance, initialZoom, style, listeners, timers, dom,
          prevented, lastOp, lastArgs, lastRet, destroys, touchEnded, steps>>

\* Bound on the number of calls and events of one run.
MaxSteps == 3

----------------------------------------------------------------------------
(* JavaScript values *)

NULL == <<>>
UNDEF == <<0, 0, 0>>

Abs(n) == IF n < 0 THEN -n ELSE n
Sign(n) == IF n < 0 THEN -1 ELSE IF n > 0 THEN 1 ELSE 0

RECURSIVE GCD(_, _)
GCD(a, b) == IF b = 0 THEN a ELSE GCD(b, a % b)

\* n/d in lowest terms; d = 0 gives an infinity or NaN.
Norm(n, d) ==
    IF d = 0 THEN <<Sign(n), 0>>
    ELSE LET g == GCD(Abs(n), Abs(d))
             s == IF d < 0 THEN -1 ELSE 1
         IN  <<s * (n \div g), s * (d \div g)>>

R(n) == <<n, 1>>
Q(n, d) == Norm(n, d)
NaN == <<0, 0>>

IsNaN(a) == a = NaN
IsFinite(a) == a[2] # 0

\* ToNumber: null converts to 0, undefined to NaN.
ToNumber(v) == IF v = NULL THEN R(0) ELSE IF v = UNDEF THEN NaN ELSE v

Mul(a, b) ==
    IF IsNaN(a) \/ IsNaN(b) THEN NaN
    ELSE IF a[2] = 0 \/ b[2] = 0 THEN <<Sign(a[1]) * Sign(b[1]), 0>>
    ELSE LET g1 == GCD(Abs(a[1]), b[2])
             g2 == GCD(Abs(b[1]), a[2])
             h1 == IF g1 = 0 THEN 1 ELSE g1
             h2 == IF g2 = 0 THEN 1 ELSE g2
         IN  Norm((a[1] \div h1) * (b[1] \div h2), (a[2] \div h2) * (b[2] \div h1))

Neg(a) == <<-a[1], a[2]>>

\* 1/b: 1/0 is +Infinity, 1/Infinity is 0.
Recip(b) ==
    IF IsNaN(b) THEN NaN
    ELSE IF b[2] = 0 THEN R(0)
    ELSE IF b[1] = 0 THEN <<1, 0>>
    ELSE IF b[1] < 0 THEN <<-b[2], -b[1]>> ELSE <<b[2], b[1]>>

Div(a, b) == Mul(a, Recip(b))

Add(a, b) ==
    IF IsNaN(a) \/ IsNaN(b) THEN NaN
    ELSE IF a[2] = 0 /\ b[2] = 0 THEN (IF a[1] = b[1] THEN a ELSE NaN)
    ELSE IF a[2] = 0 THEN a
    ELSE IF b[2] = 0 THEN b
    ELSE LET g == GCD(a[2], b[2])
         IN  Norm(a[1] * (b[2] \div g) + b[1] * (a[2] \div g), (a[2] \div g) * b[2])

Sub(a, b) == Add(a, Neg(b))

\* a < b; false when either is NaN.
Lt(a, b) ==
    IF IsNaN(a) \/ IsNaN(b) THEN FALSE
    ELSE IF a[2] = 0 \/ b[2] = 0
         THEN (IF a[2] = 0 /\ b[2] = 0 THEN a[1] < b[1]
               ELSE IF a[2] = 0 THEN a[1] < 0 ELSE b[1] > 0)
    ELSE LET g == GCD(a[2], b[2])
         IN  a[1] * (b[2] \div g) < b[1] * (a[2] \div g)

Leq(a, b) == ~IsNaN(a) /\ ~IsNaN(b) /\ ~Lt(b, a)

\* a === b on numbers: NaN is not equal to itself.
StrictEq(a, b) == ~IsNaN(a) /\ ~IsNaN(b) /\ a = b

MathMin(a, b) == IF IsNaN(a) \/ IsNaN(b) THEN NaN ELSE IF Lt(b, a) THEN b ELSE a
MathMax(a, b) == IF IsNaN(a) \/ IsNaN(b) THEN NaN ELSE IF Lt(a, b) THEN b ELSE a
MathAbs(a) == <<Abs(a[1]), a[2]>>

\* Math.sqrt on the squares of rationals the touch points produce.
ISqrt(n) == CHOOSE r \in 0..n : r * r <= n /\ (r + 1) * (r + 1) > n
MathSqrt(a) ==
    IF IsNaN(a) \/ a[1] < 0 THEN NaN
    ELSE IF a[2] = 0 THEN a
    ELSE Norm(ISqrt(a[1]), ISqrt(a[2]))

\* Truthiness of a number-or-null: null, 0 and NaN are falsy.
Truthy(v) == v # NULL /\ v # UNDEF /\ ~IsNaN(v) /\ v[1] # 0

----------------------------------------------------------------------------
(* The controller and its element as one record, so that a method is an   *)
(* operator from the state before the call to the state after it and the  *)
(* value returned ("throw": the call raised a TypeError).                 *)

Self ==
    [svgElement |-> svgElement, options |-> options, currentZoom |-> currentZoom,
     currentPan |-> currentPan, isDragging |-> isDragging,
     lastMousePos |-> lastMousePos, initialPinchDistance |-> initialPinchDistance,
     initialZoom |-> initialZoom, style |-> style, listeners |-> listeners,
     timers |-> timers, prevented |-> prevented]

Ret(s, r) == [s |-> s, ret |-> r]

\* !this.svgElement
NoElement(s) == s.svgElement # "element"

\* The element's rectangle on screen: its layout box under the transform its
\* style holds, with the transform origin at the top left corner.
getBoundingClientRect(s) ==
    [left   |-> Add(dom.origin.x, s.style.transform.x),
     top    |-> Add(dom.origin.y, s.style.transform.y),
     width  |-> Mul(dom.natural.w, s.style.transform.scale),
     height |-> Mul(dom.natural.h, s.style.transform.scale)]

\* The parent container's rectangle.
containerRect == [width |-> dom.container.w, height |-> dom.container.h]

\* A transform with a NaN or infinite component is no valid CSS value and
\* leaves the style as it was.
applyTransform(s) ==
    IF NoElement(s) THEN s
    ELSE IF IsFinite(s.currentPan.x) /\ IsFinite(s.currentPan.y) /\ IsFinite(s.currentZoom)
         THEN [s EXCEPT !.style.transform =
                  [scale |-> s.currentZoom, x |-> s.currentPan.x, y |-> s.currentPan.y]]
         ELSE s

updateCursor(s) ==
    IF NoElement(s) THEN s
    ELSE [s EXCEPT !.style.cursor =
             IF s.isDragging THEN "grabbing"
             ELSE IF s.options.panEnabled THEN "grab" ELSE "default"]

clampZoom(s, v) == MathMax(s.options.minZoom, MathMin(s.options.maxZoom, v))

zoomBy(s, factor, centerX, centerY) ==
    LET newZoom == clampZoom(s, Mul(s.currentZoom, ToNumber(factor)))
    IN  IF StrictEq(newZoom, s.currentZoom) THEN Ret(s, "false")
        ELSE IF centerX # UNDEF /\ centerY # UNDEF
             THEN IF NoElement(s) THEN Ret(s, "throw")
                  ELSE LET rect == getBoundingClientRect(s)
                           relativeX == Sub(centerX, rect.left)
                           relativeY == Sub(centerY, rect.top)
                           zoomRatio == Div(newZoom, s.currentZoom)
                           newPanX == Sub(Sub(centerX, rect.left), Mul(relativeX, zoomRatio))
                           newPanY == Sub(Sub(centerY, rect.top), Mul(relativeY, zoomRatio))
                       IN  Ret(applyTransform([s EXCEPT !.currentPan = [x |-> newPanX, y |-> newPanY],
                                                        !.currentZoom = newZoom]), "true")
             ELSE Ret(applyTransform([s EXCEPT !.currentZoom = newZoom]), "true")

zoomIn(s) ==
    IF ~s.options.zoomEnabled THEN Ret(s, "false") ELSE zoomBy(s, Q(6, 5), UNDEF, UNDEF)

zoomOut(s) ==
    IF ~s.options.zoomEnabled THEN Ret(s, "false") ELSE zoomBy(s, Q(4, 5), UNDEF, UNDEF)

\* panBy without its panEnabled gate.
panBy_ungated(s, deltaX, deltaY) ==
    Ret(applyTransform([s EXCEPT !.currentPan =
            [x |-> Add(s.currentPan.x, deltaX), y |-> Add(s.currentPan.y, deltaY)]]), "true")

panBy(s, deltaX, deltaY) ==
    IF ~s.options.panEnabled THEN Ret(s, "false")
    ELSE Ret(applyTransform([s EXCEPT !.currentPan =
                 [x |-> Add(s.currentPan.x, deltaX), y |-> Add(s.currentPan.y, deltaY)]]), "true")

\* fit that forgets to halve the free space.
fit_uncentered(s) ==
    IF NoElement(s) THEN Ret(s, "false")
    ELSE IF ~dom.parent THEN Ret(s, "false")
    ELSE LET svgRect == getBoundingClientRect(s)
             scaleX == Div(containerRect.width, svgRect.width)
             scaleY == Div(containerRect.height, svgRect.height)
             scale == MathMin(MathMin(scaleX, scaleY), R(1))
         IN  Ret(applyTransform([s EXCEPT
                     !.currentZoom = scale,
                     !.currentPan = [x |-> Sub(containerRect.width, Mul(svgRect.width, scale)),
                                     y |-> Sub(containerRect.height, Mul(svgRect.height, scale))]]),
                 "true")

\* fit without the test of the parent container: measuring a null container
\* throws.
fit_unguarded(s) ==
    IF NoElement(s) THEN Ret(s, "false")
    ELSE IF ~dom.parent THEN Ret(s, "throw")
    ELSE LET svgRect == getBoundingClientRect(s)
             scaleX == Div(containerRect.width, svgRect.width)
             scaleY == Div(containerRect.height, svgRect.height)
             scale == MathMin(MathMin(scaleX, scaleY), R(1))
         IN  Ret(applyTransform([s EXCEPT
                     !.currentZoom = scale,
                     !.currentPan = [x |-> Div(Sub(containerRect.width, Mul(svgRect.width, scale)), R(2)),
                                     y |-> Div(Sub(containerRect.height, Mul(svgRect.height, scale)), R(2))]]),
                 "true")

\* fit without the test of the element: measuring a null element throws.
fit_unchecked(s) ==
    IF NoElement(s) THEN Ret(s, "throw")
    ELSE IF ~dom.parent THEN Ret(s, "false")
    ELSE LET svgRect == getBoundingClientRect(s)
             scaleX == Div(containerRect.width, svgRect.width)
             scaleY == Div(containerRect.height, svgRect.height)
             scale == MathMin(MathMin(scaleX, scaleY), R(1))
         IN  Ret(applyTransform([s EXCEPT
                     !.currentZoom = scale,
                     !.currentPan = [x |-> Div(Sub(containerRect.width, Mul(svgRect.width, scale)), R(2)),
                                     y |-> Div(Sub(containerRect.height, Mul(svgRect.height, scale)), R(2))]]),
                 "true")

fit(s) ==
    IF NoElement(s) THEN Ret(s, "false")
    ELSE IF ~dom.parent THEN Ret(s, "false")
    ELSE LET svgRect == getBoundingClientRect(s)
             scaleX == Div(containerRect.width, svgRect.width)
             scaleY == Div(containerRect.height, svgRect.height)
             scale == MathMin(MathMin(scaleX, scaleY), R(1))
         IN  Ret(applyTransform([s EXCEPT
                     !.currentZoom = scale,
                     !.currentPan = [x |-> Div(Sub(containerRect.width, Mul(svgRect.width, scale)), R(2)),
                                     y |-> Div(Sub(containerRect.height, Mul(svgRect.height, scale)), R(2))]]),
                 "true")

\* reset gated by zoomEnabled, like the setters.
reset_gated(s) ==
    IF ~s.options.zoomEnabled THEN Ret(s, "false")
    ELSE Ret(applyTransform([s EXCEPT !.currentZoom = R(1), !.currentPan = [x |-> R(0), y |-> R(0)]]),
             "true")

reset(s) ==
    Ret(applyTransform([s EXCEPT !.currentZoom = R(1), !.currentPan = [x |-> R(0), y |-> R(0)]]),
        "true")

centerAt(s, centerX, centerY) ==
    IF NoElement(s) THEN Ret(s, "throw")
    ELSE LET rect == getBoundingClientRect(s)
         IN  Ret(applyTransform([s EXCEPT !.currentPan =
                     [x |-> Sub(Sub(centerX, rect.left), Div(Mul(rect.width, s.currentZoom), R(2))),
                      y |-> Sub(Sub(centerY, rect.top), Div(Mul(rect.height, s.currentZoom), R(2)))]]),
                 "true")

setZoom(s, zoom) ==
    IF ~s.options.zoomEnabled THEN Ret(s, "false")
    ELSE LET clampedZoom == clampZoom(s, ToNumber(zoom))
         IN  IF StrictEq(clampedZoom, s.currentZoom) THEN Ret(s, "false")
             ELSE Ret(applyTransform([s EXCEPT !.currentZoom = clampedZoom]), "true")

setPan(s, x, y) ==
    IF ~s.options.panEnabled THEN Ret(s, "false")
    ELSE Ret(applyTransform([s EXCEPT !.currentPan = [x |-> x, y |-> y]]), "true")

enableZoom(s) == Ret([s EXCEPT !.options.zoomEnabled = TRUE], "undefined")
disableZoom(s) == Ret([s EXCEPT !.options.zoomEnabled = FALSE], "undefined")
enablePan(s) == Ret(updateCursor([s EXCEPT !.options.panEnabled = TRUE]), "undefined")
disablePan(s) == Ret(updateCursor([s EXCEPT !.options.panEnabled = FALSE]), "undefined")

resize(s) == Ret(s, "true")

isInitialized(s) == s.svgElement # "null"

----------------------------------------------------------------------------
(* Event handlers.  A handler returns "undefined", or "throw" when an      *)
(* exception leaves it.  An event is [clientX, clientY, button, deltaY,   *)
(* touches], touches a sequence of [clientX, clientY].                     *)

\* What a handler returns after calling a method: the method's exception, if any.
Handled(r) == Ret(r.s, IF r.ret = "throw" THEN "throw" ELSE "undefined")

preventDefault(s) == [s EXCEPT !.prevented = TRUE]

handleWheel(s, event) ==
    LET delta == IF event.deltaY > 0 THEN Q(9, 10) ELSE Q(11, 10)
    IN  Handled(zoomBy(preventDefault(s), delta, event.clientX, event.clientY))

\* handleMouseDown without the test of the pressed button.
handleMouseDown_anyButton(s, event) ==
    Ret(preventDefault(updateCursor(
            [s EXCEPT !.isDragging = TRUE,
                      !.lastMousePos = [x |-> event.clientX, y |-> event.clientY]])),
        "undefined")

handleMouseDown(s, event) ==
    IF event.button # 0 THEN Ret(s, "undefined")
    ELSE Ret(preventDefault(updateCursor(
                 [s EXCEPT !.isDragging = TRUE,
                           !.lastMousePos = [x |-> event.clientX, y |-> event.clientY]])),
             "undefined")

\* handleMouseMove that keeps measuring from the point of the mousedown.
handleMouseMove_stale(s, event) ==
    IF ~s.isDragging THEN Ret(s, "undefined")
    ELSE LET deltaX == Sub(event.clientX, s.lastMousePos.x)
             deltaY == Sub(event.clientY, s.lastMousePos.y)
             r == panBy(s, deltaX, deltaY)
         IN  Ret(preventDefault(r.s), "undefined")

handleMouseMove(s, event) ==
    IF ~s.isDragging THEN Ret(s, "undefined")
    ELSE LET deltaX == Sub(event.clientX, s.lastMousePos.x)
             deltaY == Sub(event.clientY, s.lastMousePos.y)
             r == panBy(s, deltaX, deltaY)
         IN  Ret(preventDefault([r.s EXCEPT !.lastMousePos =
                                     [x |-> event.clientX, y |-> event.clientY]]),
                 "undefined")

handleMouseUp(s, event) ==
    Ret(updateCursor([s EXCEPT !.isDragging = FALSE]), "undefined")

handleDoubleClick(s, event) ==
    IF NoElement(s) THEN Ret(s, "throw")
    ELSE LET rect == getBoundingClientRect(s)
             centerX == Add(rect.left, Div(rect.width, R(2)))
             centerY == Add(rect.top, Div(rect.height, R(2)))
         IN  IF Lt(MathAbs(Sub(s.currentZoom, R(1))), Q(1, 10))
             THEN Handled(fit(s))
             ELSE Handled(centerAt(setZoom(s, R(1)).s, centerX, centerY))

getTouchDistance(touch1, touch2) ==
    LET dx == Sub(touch1.clientX, touch2.clientX)
        dy == Sub(touch1.clientY, touch2.clientY)
    IN  MathSqrt(Add(Mul(dx, dx), Mul(dy, dy)))

handleTouchStart(s, event) ==
    IF Len(event.touches) = 1 /\ s.options.panEnabled
    THEN Ret([s EXCEPT !.isDragging = TRUE,
                       !.lastMousePos = [x |-> event.touches[1].clientX, y |-> event.touches[1].clientY]],
             "undefined")
    ELSE IF Len(event.touches) = 2 /\ s.options.zoomEnabled
    THEN Ret([preventDefault(s) EXCEPT
                  !.initialPinchDistance = getTouchDistance(event.touches[1], event.touches[2]),
                  !.initialZoom = s.currentZoom],
             "undefined")
    ELSE Ret(s, "undefined")

\* A pinch that scales the current zoom instead of the gesture's baseline.
handleTouchMove_incremental(s, event) ==
    IF Len(event.touches) = 1 /\ s.isDragging /\ s.options.panEnabled
    THEN LET deltaX == Sub(event.touches[1].clientX, s.lastMousePos.x)
             deltaY == Sub(event.touches[1].clientY, s.lastMousePos.y)
             r == panBy(s, deltaX, deltaY)
         IN  Ret(preventDefault([r.s EXCEPT !.lastMousePos =
                                     [x |-> event.touches[1].clientX, y |-> event.touches[1].clientY]]),
                 "undefined")
    ELSE IF Len(event.touches) = 2 /\ s.options.zoomEnabled
    THEN LET p == preventDefault(s)
             currentDistance == getTouchDistance(event.touches[1], event.touches[2])
         IN  IF Truthy(s.initialPinchDistance)
             THEN LET scale == Div(currentDistance, s.initialPinchDistance)
                      newZoom == Mul(s.currentZoom, scale)
                  IN  Handled(setZoom(p, clampZoom(p, newZoom)))
             ELSE Ret(p, "undefined")
    ELSE Ret(s, "undefined")

\* handleTouchMove without the test of the baseline distance.
handleTouchMove_unguarded(s, event) ==
    IF Len(event.touches) = 1 /\ s.isDragging /\ s.options.panEnabled
    THEN LET deltaX == Sub(event.touches[1].clientX, s.lastMousePos.x)
             deltaY == Sub(event.touches[1].clientY, s.lastMousePos.y)
             r == panBy(s, deltaX, deltaY)
         IN  Ret(preventDefault([r.s EXCEPT !.lastMousePos =
                                     [x |-> event.touches[1].clientX, y |-> event.touches[1].clientY]]),
                 "undefined")
    ELSE IF Len(event.touches) = 2 /\ s.options.zoomEnabled
    THEN LET p == preventDefault(s)
             currentDistance == getTouchDistance(event.touches[1], event.touches[2])
             scale == Div(currentDistance, ToNumber(s.initialPinchDistance))
             newZoom == Mul(ToNumber(s.initialZoom), scale)
         IN  Handled(setZoom(p, clampZoom(p, newZoom)))
    ELSE Ret(s, "undefined")

handleTouchMove(s, event) ==
    IF Len(event.touches) = 1 /\ s.isDragging /\ s.options.panEnabled
    THEN LET deltaX == Sub(event.touches[1].clientX, s.lastMousePos.x)
             deltaY == Sub(event.touches[1].clientY, s.lastMousePos.y)
             r == panBy(s, deltaX, deltaY)
         IN  Ret(preventDefault([r.s EXCEPT !.lastMousePos =
                                     [x |-> event.touches[1].clientX, y |-> event.touches[1].clientY]]),
                 "undefined")
    ELSE IF Len(event.touches) = 2 /\ s.options.zoomEnabled
    THEN LET p == preventDefault(s)
             currentDistance == getTouchDistance(event.touches[1], event.touches[2])
         IN  IF Truthy(s.initialPinchDistance)
             THEN LET scale == Div(currentDistance, s.initialPinchDistance)
                      newZoom == Mul(ToNumber(s.initialZoom), scale)
                  IN  Handled(setZoom(p, clampZoom(p, newZoom)))
             ELSE Ret(p, "undefined")
    ELSE Ret(s, "undefined")

handleTouchEnd(s, event) ==
    Ret([s EXCEPT !.isDragging = FALSE, !.initialPinchDistance = NULL, !.initialZoom = NULL],
        "undefined")

----------------------------------------------------------------------------
(* Construction and destruction.  A registered listener is [target, type,  *)
(* cb]; cb names the method and tells whether it is the function object    *)
(* made by bind(this) (or an arrow closure) or the method itself.          *)

Bound(name) == [fn |-> name, bound |-> TRUE]
Method(name) == [fn |-> name, bound |-> FALSE]

addEventListener(L, target, type, cb) ==
    L \cup {[target |-> target, type |-> type, cb |-> cb]}

\* Removes the listener registered with this very function object.
removeEventListener(L, target, type, cb) ==
    L \ {[target |-> target, type |-> type, cb |-> cb]}

applySvgStyling(s) ==
    [s EXCEPT !.style.cursor = IF s.options.panEnabled THEN "grab" ELSE "default"]

\* setupEventListeners that registers the wheel and double-click listeners
\* whenever zoom is enabled, whatever the two specific flags say.
setupEventListeners_ungated(s) ==
    IF ~s.options.zoomEnabled /\ ~s.options.panEnabled THEN s
    ELSE LET L1 == IF s.options.zoomEnabled
                   THEN addEventListener(s.listeners, "svg", "wheel", Bound("handleWheel"))
                   ELSE s.listeners
             L2 == IF s.options.panEnabled
                   THEN addEventListener(addEventListener(addEventListener(addEventListener(L1,
                            "svg", "mousedown", Bound("handleMouseDown")),
                            "svg", "mousemove", Bound("handleMouseMove")),
                            "svg", "mouseup", Bound("handleMouseUp")),
                            "svg", "mouseleave", Bound("handleMouseUp"))
                   ELSE L1
             L3 == IF s.options.zoomEnabled
                   THEN addEventListener(L2, "svg", "dblclick", Bound("handleDoubleClick"))
                   ELSE L2
             L4 == IF s.options.panEnabled \/ s.options.zoomEnabled
                   THEN addEventListener(addEventListener(addEventListener(L3,
                            "svg", "touchstart", Bound("handleTouchStart")),
                            "svg", "touchmove", Bound("handleTouchMove")),
                            "svg", "touchend", Bound("handleTouchEnd"))
                   ELSE L3
         IN  [s EXCEPT !.listeners = L4]

setupEventListeners(s) ==
    IF ~s.options.zoomEnabled /\ ~s.options.panEnabled THEN s
    ELSE LET L1 == IF s.options.zoomEnabled /\ s.options.mouseWheelZoomEnabled
                   THEN addEventListener(s.listeners, "svg", "wheel", Bound("handleWheel"))
                   ELSE s.listeners
             L2 == IF s.options.panEnabled
                   THEN addEventListener(addEventListener(addEventListener(addEventListener(L1,
                            "svg", "mousedown", Bound("handleMouseDown")),
                            "svg", "mousemove", Bound("handleMouseMove")),
                            "svg", "mouseup", Bound("handleMouseUp")),
                            "svg", "mouseleave", Bound("handleMouseUp"))
                   ELSE L1
             L3 == IF s.options.zoomEnabled /\ s.options.dblClickZoomEnabled
                   THEN addEventListener(L2, "svg", "dblclick", Bound("handleDoubleClick"))
                   ELSE L2
             L4 == IF s.options.panEnabled \/ s.options.zoomEnabled
                   THEN addEventListener(addEventListener(addEventListener(L3,
                            "svg", "touchstart", Bound("handleTouchStart")),
                            "svg", "touchmove", Bound("handleTouchMove")),
                            "svg", "touchend", Bound("handleTouchEnd"))
                   ELSE L3
         IN  [s EXCEPT !.listeners = L4]

\* options.controls is the set of buttons it holds; null, like an object that
\* holds no button, is the empty set.
setupControlButtons(s) ==
    IF s.options.controls = {} THEN s
    ELSE LET add(L, btn, fn) == IF btn \in s.options.controls
                                THEN addEventListener(L, btn, "click", Bound(fn)) ELSE L
         IN  [s EXCEPT !.listeners =
                 add(add(add(add(s.listeners, "zoomInBtn", "zoomIn"), "zoomOutBtn", "zoomOut"),
                         "zoomFitBtn", "fit"), "zoomResetBtn", "reset")]

initialize(s) ==
    IF NoElement(s) THEN s
    ELSE LET s1 == setupEventListeners(applySvgStyling(s))
             s2 == IF s1.options.controls # {} THEN setupControlButtons(s1) ELSE s1
         IN  IF s2.options.fitOnLoad THEN [s2 EXCEPT !.timers = s2.timers \cup {"fit"}] ELSE s2

DefaultOptions ==
    [controls |-> {}, zoomEnabled |-> TRUE, panEnabled |-> TRUE,
     minZoom |-> Q(1, 10), maxZoom |-> R(10), dblClickZoomEnabled |-> TRUE,
     mouseWheelZoomEnabled |-> TRUE, fitOnLoad |-> TRUE]

\* new PanZoom(svgElement, options): options override the defaults.
constructor(element, opts) ==
    initialize(
        [svgElement |-> element,
         options |-> [k \in DOMAIN DefaultOptions |->
                         IF k \in DOMAIN opts THEN opts[k] ELSE DefaultOptions[k]],
         currentZoom |-> R(1), currentPan |-> [x |-> R(0), y |-> R(0)],
         isDragging |-> FALSE, lastMousePos |-> [x |-> R(0), y |-> R(0)],
         initialPinchDistance |-> NULL, initialZoom |-> NULL,
         style |-> [transform |-> [scale |-> R(1), x |-> R(0), y |-> R(0)], cursor |-> "auto"],
         listeners |-> {}, timers |-> {}, prevented |-> FALSE])

destroy(s) ==
    LET L == IF NoElement(s) THEN s.listeners
             ELSE removeEventListener(removeEventListener(removeEventListener(
                  removeEventListener(removeEventListener(removeEventListener(
                  removeEventListener(removeEventListener(removeEventListener(s.listeners,
                      "svg", "wheel", Method("handleWheel")),
                      "svg", "mousedown", Method("handleMouseDown")),
                      "svg", "mousemove", Method("handleMouseMove")),
                      "svg", "mouseup", Method("handleMouseUp")),
                      "svg", "mouseleave", Method("handleMouseUp")),
                      "svg", "dblclick", Method("handleDoubleClick")),
                      "svg", "touchstart", Method("handleTouchStart")),
                      "svg", "touchmove", Method("handleTouchMove")),
                      "svg", "touchend", Method("handleTouchEnd"))
    IN  Ret([s EXCEPT !.listeners = L, !.svgElement = "null"], "undefined")

----------------------------------------------------------------------------
(* Inputs *)

P(x, y) == [x |-> R(x), y |-> R(y)]
Touch(x, y) == [clientX |-> R(x), clientY |-> R(y)]

Buttons == {"zoomInBtn", "zoomOutBtn", "zoomFitBtn", "zoomResetBtn"}

\* The options objects callers pass to the constructor.
OptionSets ==
    { <<>>,
      [zoomEnabled |-> FALSE],
      [panEnabled |-> FALSE],
      [minZoom |-> R(2), maxZoom |-> R(4)],
      [minZoom |-> Q(1, 4), maxZoom |-> Q(1, 2), zoomEnabled |-> FALSE, panEnabled |-> FALSE,
       fitOnLoad |-> FALSE],
      [mouseWheelZoomEnabled |-> FALSE, dblClickZoomEnabled |-> FALSE],
      [fitOnLoad |-> FALSE, controls |-> Buttons] }

\* Page layouts: whether the element has a parent, the container's and the
\* element's untransformed size, and where the element's layout box starts.
Layouts ==
    { [parent |-> TRUE, container |-> [w |-> R(100), h |-> R(80)],
       natural |-> [w |-> R(50), h |-> R(40)], origin |-> P(10, 5)],
      [parent |-> TRUE, container |-> [w |-> R(10), h |-> R(10)],
       natural |-> [w |-> R(200), h |-> R(100)], origin |-> P(0, 0)],
      [parent |-> FALSE, container |-> [w |-> R(0), h |-> R(0)],
       natural |-> [w |-> R(50), h |-> R(40)], origin |-> P(0, 0)],
      \* a subtree that is not displayed: every rectangle is 0 x 0
      [parent |-> TRUE, container |-> [w |-> R(0), h |-> R(0)],
       natural |-> [w |-> R(0), h |-> R(0)], origin |-> P(0, 0)] }

\* A controller built without an element has no page to measure.
NoLayout ==
    [parent |-> FALSE, container |-> [w |-> R(0), h |-> R(0)],
     natural |-> [w |-> R(0), h |-> R(0)], origin |-> P(0, 0)]

\* zoomBy(factor, centerX, centerY), the centre given or not.
ZoomArg(factor, centerX, centerY) ==
    [factor |-> factor, centerX |-> centerX, centerY |-> centerY]
ZoomArgs == {ZoomArg(Q(1, 2), UNDEF, UNDEF), ZoomArg(R(3), UNDEF, UNDEF), ZoomArg(R(3), R(30), R(20))}
Zooms == {R(1), R(3)}
Deltas == {P(7, -3)}
Pans == {P(5, 5)}

MouseEvent(x, y, button, deltaY) ==
    [clientX |-> R(x), clientY |-> R(y), button |-> button, deltaY |-> deltaY, touches |-> <<>>]
TouchEvent(touches) ==
    [clientX |-> R(0), clientY |-> R(0), button |-> 0, deltaY |-> 0, touches |-> touches]

WheelEvents == {MouseEvent(30, 20, 0, -100), MouseEvent(30, 20, 0, 100)}
DownEvents == {MouseEvent(30, 20, 0, 0), MouseEvent(30, 20, 2, 0)}
MoveEvents == {MouseEvent(34, 23, 0, 0), MouseEvent(-70, 28, 0, 0)}
UpEvents == {MouseEvent(34, 23, 0, 0)}
DblClickEvents == {MouseEvent(30, 20, 0, 0), MouseEvent(60, 10, 0, 0)}
TouchStartEvents ==
    {TouchEvent(<<Touch(30, 20)>>), TouchEvent(<<Touch(30, 20), Touch(36, 28)>>),
     TouchEvent(<<Touch(30, 20), Touch(30, 20)>>)}
TouchMoveEvents ==
    {TouchEvent(<<Touch(35, 22)>>), TouchEvent(<<Touch(30, 20), Touch(42, 36)>>),
     TouchEvent(<<Touch(30, 20), Touch(33, 24)>>)}
TouchEndEvents == {TouchEvent(<<>>), TouchEvent(<<Touch(30, 20)>>)}

----------------------------------------------------------------------------
(* The state machine *)

Install(s, op, args, ret) ==
    /\ svgElement' = s.svgElement
    /\ options' = s.options
    /\ currentZoom' = s.currentZoom
    /\ currentPan' = s.currentPan
    /\ isDragging' = s.isDragging
    /\ lastMousePos' = s.lastMousePos
    /\ initialPinchDistance' = s.initialPinchDistance
    /\ initialZoom' = s.initialZoom
    /\ style' = s.style
    /\ listeners' = s.listeners
    /\ timers' = s.timers
    /\ prevented' = s.prevented
    /\ lastOp' = op
    /\ lastArgs' = args
    /\ lastRet' = ret
    /\ destroys' = IF op = "destroy" THEN destroys + 1 ELSE destroys
    /\ touchEnded' = IF op = "touchend" THEN TRUE
                     ELSE IF op = "touchstart" THEN FALSE ELSE touchEnded
    /\ steps' = steps + 1
    /\ dom' = dom

\* The state a call or an event starts from: no default prevented yet.
Before == [Self EXCEPT !.prevented = FALSE]

Init ==
    \E element \in {"element", "null", "undefined"}, opts \in OptionSets, layout \in Layouts \cup {NoLayout} :
        /\ (element = "element") = (layout \in Layouts)
        /\ \E s \in {constructor(element, opts)} :
            /\ svgElement = s.svgElement
            /\ options = s.options
            /\ currentZoom = s.currentZoom
            /\ currentPan = s.currentPan
            /\ isDragging = s.isDragging
            /\ lastMousePos = s.lastMousePos
            /\ initialPinchDistance = s.initialPinchDistance
            /\ initialZoom = s.initialZoom
            /\ style = s.style
            /\ listeners = s.listeners
            /\ timers = s.timers
            /\ prevented = s.prevented
        /\ dom = layout
        /\ lastOp = "new"
        /\ lastArgs = <<>>
        /\ lastRet = "undefined"
        /\ destroys = 0
        /\ touchEnded = FALSE
        /\ steps = 0

\* Runs stop after MaxSteps calls and events.
More == steps < MaxSteps

Call(op, args, r) == Install(r.s, op, args, r.ret)

ZoomIn == More /\ \E r \in {zoomIn(Before)} : Call("zoomIn", <<>>, r)
ZoomOut == More /\ \E r \in {zoomOut(Before)} : Call("zoomOut", <<>>, r)
ZoomBy ==
    More /\ \E a \in ZoomArgs :
        \E r \in {zoomBy(Before, a.factor, a.centerX, a.centerY)} : Call("zoomBy", a, r)
PanBy == More /\ \E d \in Deltas : \E r \in {panBy(Before, d.x, d.y)} : Call("panBy", [deltaX |-> d.x, deltaY |-> d.y], r)
Fit == More /\ \E r \in {fit(Before)} : Call("fit", <<>>, r)
Reset == More /\ \E r \in {reset(Before)} : Call("reset", <<>>, r)
SetZoom == More /\ \E zoom \in Zooms : \E r \in {setZoom(Before, zoom)} : Call("setZoom", [zoom |-> zoom], r)
SetPan == More /\ \E p \in Pans : \E r \in {setPan(Before, p.x, p.y)} : Call("setPan", [x |-> p.x, y |-> p.y], r)
EnableZoom == More /\ \E r \in {enableZoom(Before)} : Call("enableZoom", <<>>, r)
DisableZoom == More /\ \E r \in {disableZoom(Before)} : Call("disableZoom", <<>>, r)
EnablePan == More /\ \E r \in {enablePan(Before)} : Call("enablePan", <<>>, r)
DisablePan == More /\ \E r \in {disablePan(Before)} : Call("disablePan", <<>>, r)
Resize == More /\ \E r \in {resize(Before)} : Call("resize", <<>>, r)
Destroy == More /\ \E r \in {destroy(Before)} : Call("destroy", <<>>, r)

\* The listener a dispatched event runs.
Handler(fn, s, event) ==
    CASE fn = "handleWheel" -> handleWheel(s, event)
      [] fn = "handleMouseDown" -> handleMouseDown(s, event)
      [] fn = "handleMouseMove" -> handleMouseMove(s, event)
      [] fn = "handleMouseUp" -> handleMouseUp(s, event)
      [] fn = "handleDoubleClick" -> handleDoubleClick(s, event)
      [] fn = "handleTouchStart" -> handleTouchStart(s, event)
      [] fn = "handleTouchMove" -> handleTouchMove(s, event)
      [] fn = "handleTouchEnd" -> handleTouchEnd(s, event)
      [] fn = "zoomIn" -> Handled(zoomIn(s))
      [] fn = "zoomOut" -> Handled(zoomOut(s))
      [] fn = "fit" -> Handled(fit(s))
      [] fn = "reset" -> Handled(reset(s))

\* The listeners the browser runs for an event of this type on this target.
Listening(target, type) == {l \in listeners : l.target = target /\ l.type = type}

Dispatch(l, event) ==
    \E r \in {Handler(l.cb.fn, Before, event)} : Call(l.type, [target |-> l.target, event |-> event], r)

Wheel == More /\ \E l \in Listening("svg", "wheel"), e \in WheelEvents : Dispatch(l, e)
MouseDown == More /\ \E l \in Listening("svg", "mousedown"), e \in DownEvents : Dispatch(l, e)
MouseMove == More /\ \E l \in Listening("svg", "mousemove"), e \in MoveEvents : Dispatch(l, e)
MouseUp == More /\ \E l \in Listening("svg", "mouseup"), e \in UpEvents : Dispatch(l, e)
MouseLeave == More /\ \E l \in Listening("svg", "mouseleave"), e \in UpEvents : Dispatch(l, e)
DblClick == More /\ \E l \in Listening("svg", "dblclick"), e \in DblClickEvents : Dispatch(l, e)
TouchStart == More /\ \E l \in Listening("svg", "touchstart"), e \in TouchStartEvents : Dispatch(l, e)
TouchMove == More /\ \E l \in Listening("svg", "touchmove"), e \in TouchMoveEvents : Dispatch(l, e)
TouchEnd == More /\ \E l \in Listening("svg", "touchend"), e \in TouchEndEvents : Dispatch(l, e)
Click ==
    More /\ \E b \in Buttons : \E l \in Listening(b, "click") : Dispatch(l, MouseEvent(0, 0, 0, 0))

\* The timer set by initialize fires: () => this.fit().
Timer ==
    More /\ \E t \in timers :
        \E r \in {fit([Before EXCEPT !.timers = timers \ {t}])} : Call("timer", [id |-> t], r)

Next ==
    \/ ZoomIn \/ ZoomOut \/ ZoomBy \/ PanBy \/ Fit \/ Reset \/ SetZoom \/ SetPan
    \/ EnableZoom \/ DisableZoom \/ EnablePan \/ DisablePan \/ Resize \/ Destroy
    \/ Wheel \/ MouseDown \/ MouseMove \/ MouseUp \/ MouseLeave \/ DblClick
    \/ TouchStart \/ TouchMove \/ TouchEnd \/ Click \/ Timer

Spec == Init /\ [][Next]_vars

----------------------------------------------------------------------------
(* Vocabulary of the properties *)

InRange(options_, zoom) == Leq(options_.minZoom, zoom) /\ Leq(zoom, options_.maxZoom)

Identity == [scale |-> R(1), x |-> R(0), y |-> R(0)]
Transform == [scale |-> currentZoom, x |-> currentPan.x, y |-> currentPan.y]
Interaction == <<isDragging, lastMousePos, initialPinchDistance, initialZoom>>

Mutators == {"zoomIn", "zoomOut", "zoomBy", "panBy", "setZoom", "setPan", "fit", "reset", "resize"}
GestureEvents == {"wheel", "mousedown", "mousemove", "mouseup", "mouseleave", "dblclick",
                  "touchstart", "touchmove", "touchend"}
\* The controller was constructed on a live element, and the element is
\* laid out with a size.
Attached == dom \in Layouts
Displayed == Attached /\ Lt(R(0), dom.natural.w) /\ Lt(R(0), dom.natural.h)

MouseDragEvents == {"mousedown", "mousemove", "mouseup", "mouseleave"}
TouchEvents == {"touchstart", "touchmove", "touchend"}

\* The element-local point shown at screen point (cx, cy), and the screen
\* point at which the element-local point p is shown.
LocalAt(tr, cx, cy) ==
    [x |-> Div(Sub(Sub(cx, dom.origin.x), tr.x), tr.scale),
     y |-> Div(Sub(Sub(cy, dom.origin.y), tr.y), tr.scale)]
ScreenOf(tr, p) ==
    [x |-> Add(Add(dom.origin.x, tr.x), Mul(p.x, tr.scale)),
     y |-> Add(Add(dom.origin.y, tr.y), Mul(p.y, tr.scale))]

\* The rectangle fit() measures on the element: its bounding rectangle under
\* the transform applied when fit() is called.
Measured == getBoundingClientRect(Self)

\* The element's box as displayed, and the container's box: the element is
\* laid out at the container's top left corner, which is what fit()'s
\* centring arithmetic takes for granted.
DisplayedBox ==
    [left   |-> Add(dom.origin.x, style.transform.x),
     top    |-> Add(dom.origin.y, style.transform.y),
     width  |-> Mul(dom.natural.w, style.transform.scale),
     height |-> Mul(dom.natural.h, style.transform.scale)]
ContainerBox ==
    [left |-> dom.origin.x, top |-> dom.origin.y,
     width |-> dom.container.w, height |-> dom.container.h]
Inside(box, outer) ==
    /\ Leq(outer.left, box.left)
    /\ Leq(outer.top, box.top)
    /\ Leq(Add(box.left, box.width), Add(outer.left, outer.width))
    /\ Leq(Add(box.top, box.height), Add(outer.top, outer.height))
Centered(box, outer) ==
    /\ Sub(box.left, outer.left) = Sub(Add(outer.left, outer.width), Add(box.left, box.width))
    /\ Sub(box.top, outer.top) = Sub(Add(outer.top, outer.height), Add(box.top, box.height))
\* The box lies wholly beside, above or below the outer box.
Outside(box, outer) ==
    \/ Leq(Add(box.left, box.width), outer.left)
    \/ Leq(Add(outer.left, outer.width), box.left)
    \/ Leq(Add(box.top, box.height), outer.top)
    \/ Leq(Add(outer.top, outer.height), box.top)

----------------------------------------------------------------------------
(* Zoom calls alone, on a fresh controller, with factors and values of     *)
(* every kind: zero, negative, below and above the range, not a number.    *)

ClampZoomArgs ==
    {ZoomArg(f, c[1], c[2]) : f \in {R(0), R(-2), Q(1, 2), Q(6, 5), R(3), R(100), NaN},
                              c \in {<<UNDEF, UNDEF>>, <<R(30), R(20)>>}}
ClampZooms == {R(0), R(-2), Q(1, 20), Q(1, 3), R(1), R(3), R(100), NaN}

ZoomByAny ==
    More /\ \E a \in ClampZoomArgs :
        \E r \in {zoomBy(Before, a.factor, a.centerX, a.centerY)} : Call("zoomBy", a, r)
SetZoomAny ==
    More /\ \E zoom \in ClampZooms : \E r \in {setZoom(Before, zoom)} : Call("setZoom", [zoom |-> zoom], r)

NextClamp == ZoomByAny \/ SetZoomAny

SpecClamp == Init /\ [][NextClamp]_vars

----------------------------------------------------------------------------
(* Properties *)

\* C1: on a freshly constructed controller, after any sequence of zoomBy and
\* setZoom calls the scale lies in [minZoom, maxZoom].  (Checked under
\* SpecClamp, whose only steps are these calls; stated for the controllers
\* built on a displayed element whose range holds the initial scale 1.)
C1_ClampInvariant ==
    (Displayed /\ InRange(options, R(1)) /\ lastOp \in {"zoomBy", "setZoom"})
    => InRange(options, currentZoom)

\* C2: on a displayed element, every step that changes the scale leaves it
\* in [minZoom, maxZoom].
C2_ScaleInRange ==
    [][(Displayed /\ currentZoom' # currentZoom) => InRange(options', currentZoom')]_vars

\* C3: zoomBy(factor, cx, cy) that is performed on a displayed element and
\* whose factor is not clamped keeps the element-local point shown at
\* (cx, cy) at (cx, cy).
C3_ZoomFixedPoint ==
    [][(/\ lastOp' = "zoomBy"
        /\ lastRet' = "true"
        /\ lastArgs'.centerX # UNDEF
        /\ svgElement = "element" /\ Displayed
        /\ InRange(options, Mul(currentZoom, lastArgs'.factor)))
       => ScreenOf(style'.transform, LocalAt(style.transform, lastArgs'.centerX, lastArgs'.centerY))
              = [x |-> lastArgs'.centerX, y |-> lastArgs'.centerY]]_vars

\* C4: after destroy() of a controller built on a displayed element, no
\* mutator throws and none changes scale or translation.
C4_DestroySafety ==
    [][(Displayed /\ destroys > 0 /\ lastOp' \in Mutators)
       => (lastRet' # "throw" /\ currentZoom' = currentZoom /\ currentPan' = currentPan)]_vars

\* C5: after destroy(), no event on the former element and no click on a
\* control button changes the Transform or the Interaction State.
C5_NoHandlerAfterDestroy ==
    [][(Displayed /\ destroys > 0 /\ lastOp' \in GestureEvents \cup {"click"})
       => (Transform' = Transform /\ Interaction' = Interaction)]_vars

\* C6: a controller constructed without a live element has no listener and
\* no timer, isInitialized() is false, and its mutators return false and
\* leave scale and translation as constructed.
C6_MissingElementInert ==
    (svgElement # "element" /\ destroys = 0)
    => /\ listeners = {}
       /\ timers = {}
       /\ ~isInitialized(Self)
       /\ lastOp \in Mutators => lastRet = "false"
       /\ Transform = Identity

\* C7: on a live controller of a displayed element, while zoomEnabled is false, zoomBy, setZoom,
\* zoomIn and zoomOut return false and leave the Transform unchanged, and
\* wheel, double-click and touch events leave the scale unchanged.
C7_DisabledZoom ==
    [][(svgElement = "element" /\ Displayed /\ ~options.zoomEnabled)
       => /\ lastOp' \in {"zoomBy", "setZoom", "zoomIn", "zoomOut"}
             => (lastRet' = "false" /\ Transform' = Transform)
          /\ lastOp' \in {"wheel", "dblclick"} \cup TouchEvents
             => currentZoom' = currentZoom]_vars

\* C8: while panEnabled is false, panBy and setPan return false and leave the
\* Transform unchanged, and mouse and touch events leave the translation
\* unchanged.
C8_DisabledPanNoOp ==
    [][~options.panEnabled
       => /\ lastOp' \in {"panBy", "setPan"}
             => (lastRet' = "false" /\ Transform' = Transform
                 /\ style'.transform = style.transform)
          /\ lastOp' \in MouseDragEvents \cup TouchEvents
             => currentPan' = currentPan]_vars

\* A mouse move arrives in the middle of a drag after pan was disabled: the
\* handler ran up to its panBy call and recorded the pointer position.
C8_Witness ==
    /\ lastOp = "mousemove" /\ isDragging /\ ~options.panEnabled
    /\ lastMousePos = [x |-> lastArgs.event.clientX, y |-> lastArgs.event.clientY]

\* C9: reset() returns true and leaves the Transform at {1, 0, 0}, whatever
\* the state and the flags; so a second reset() changes nothing.
C9_Reset ==
    lastOp = "reset" => (lastRet = "true" /\ Transform = Identity)

\* reset() on a controller with zoom and pan disabled and a range that does
\* not hold 1.
C9_Witness ==
    /\ lastOp = "reset"
    /\ ~options.zoomEnabled /\ ~options.panEnabled
    /\ ~InRange(options, R(1))
    /\ steps > 1

\* C10: a fit() that is performed, called directly or by the timer, leaves
\* scale <= 1.
C10_FitNeverUpscales ==
    (lastOp \in {"fit", "timer"} /\ lastRet = "true") => Leq(currentZoom, R(1))

\* C11: after a fit() that is performed, called directly or by the timer,
\* translateX = (containerW - elementW * scale) / 2 and translateY =
\* (containerH - elementH * scale) / 2, scale being the scale fit() set and
\* elementW, elementH the size fit() measured.
C11_FitCentering ==
    [][(lastOp' \in {"fit", "timer"} /\ lastRet' = "true")
       => /\ currentPan'.x = Div(Sub(containerRect.width, Mul(Measured.width, currentZoom')), R(2))
          /\ currentPan'.y = Div(Sub(containerRect.height, Mul(Measured.height, currentZoom')), R(2))]_vars

\* fit() shrinks an element larger than its container, after an earlier
\* step, and leaves free space to halve.
C11_Witness ==
    /\ lastOp = "fit" /\ lastRet = "true" /\ steps > 1
    /\ Lt(currentZoom, R(1)) /\ Lt(R(0), currentPan.y)

\* C12: after a fit() that is performed on a displayed element, the
\* element's box as displayed lies inside the container and is centred in it.
C12_FitVisible ==
    (lastOp = "fit" /\ lastRet = "true" /\ Displayed)
    => (Inside(DisplayedBox, ContainerBox) /\ Centered(DisplayedBox, ContainerBox))

\* C13: a two-touch touchstart records the distance d0 of the touches and the
\* scale s0; every two-touch touchmove of the gesture, at distance d, leaves
\* the scale at clamp(s0 * d / d0) and the baseline as recorded, whatever the
\* earlier touchmoves did.
C13_PinchBaseline ==
    [][/\ (/\ lastOp' = "touchstart"
           /\ Len(lastArgs'.event.touches) = 2
           /\ options.zoomEnabled)
          => /\ initialPinchDistance' =
                    getTouchDistance(lastArgs'.event.touches[1], lastArgs'.event.touches[2])
             /\ initialZoom' = currentZoom
       /\ (/\ lastOp' = "touchmove"
           /\ Len(lastArgs'.event.touches) = 2
           /\ options.zoomEnabled
           /\ Truthy(initialPinchDistance))
          => /\ currentZoom' =
                    clampZoom(Self, Mul(initialZoom,
                        Div(getTouchDistance(lastArgs'.event.touches[1], lastArgs'.event.touches[2]),
                            initialPinchDistance)))
             /\ initialPinchDistance' = initialPinchDistance
             /\ initialZoom' = initialZoom]_vars

\* A pinch whose baseline is distance 10 at scale 1 is moved to distance 5
\* as the third step of the run: the scale is 1/2.
C13_Witness ==
    /\ lastOp = "touchmove" /\ steps = 3
    /\ initialPinchDistance = R(10) /\ initialZoom = R(1)
    /\ Len(lastArgs.event.touches) = 2
    /\ getTouchDistance(lastArgs.event.touches[1], lastArgs.event.touches[2]) = R(5)
    /\ currentZoom = Q(1, 2)

\* C14: on a displayed element, isDragging is never true while a pinch
\* baseline is recorded.
C14_ModesExclusive ==
    Displayed => ~(isDragging /\ (initialPinchDistance # NULL \/ initialZoom # NULL))

\* C15: a double-click on a live controller of a displayed element, zoom
\* enabled and 1 within the range: if |scale - 1| < 0.1 the Transform becomes
\* what fit() makes it; otherwise the scale becomes 1 and the translation
\* depends on where the click was (a double-click elsewhere, from the same
\* state, gives another translation).
C15_DblClickToggle ==
    [][(/\ lastOp' = "dblclick"
        /\ svgElement = "element" /\ Displayed
        /\ options.zoomEnabled /\ InRange(options, R(1)))
       => IF Lt(MathAbs(Sub(currentZoom, R(1))), Q(1, 10))
          THEN /\ currentZoom' = fit(Before).s.currentZoom
               /\ currentPan' = fit(Before).s.currentPan
          ELSE /\ currentZoom' = R(1)
               /\ \A e \in DblClickEvents :
                      <<e.clientX, e.clientY>> # <<lastArgs'.event.clientX, lastArgs'.event.clientY>>
                      => handleDoubleClick(Before, e).s.currentPan # currentPan']_vars

\* C16: a wheel event on a live controller of a displayed element sets the
\* scale to clamp(scale * 0.9) when deltaY > 0 and to clamp(scale * 1.1) when
\* deltaY < 0, keeps the point under the pointer where it is, and leaves
\* isDragging and the pinch baseline as they are.
C16_WheelDirection ==
    [][(lastOp' = "wheel" /\ svgElement = "element" /\ Displayed)
       => LET event == lastArgs'.event
          IN  /\ event.deltaY > 0 => currentZoom' = clampZoom(Self, Mul(currentZoom, Q(9, 10)))
              /\ event.deltaY < 0 => currentZoom' = clampZoom(Self, Mul(currentZoom, Q(11, 10)))
              /\ currentZoom' # currentZoom
                 => ScreenOf(style'.transform, LocalAt(style.transform, event.clientX, event.clientY))
                        = [x |-> event.clientX, y |-> event.clientY]
              /\ isDragging' = isDragging
              /\ initialPinchDistance' = initialPinchDistance
              /\ initialZoom' = initialZoom]_vars

\* C17: no wheel, mouse, double-click or touch handler of a controller built
\* on a displayed element throws, in any state, destroyed or not.
C17_NoGestureException ==
    (Displayed /\ lastOp \in GestureEvents) => lastRet # "throw"

\* C18: on a live controller, setZoom(v) returns false and leaves the
\* Transform unchanged when zoom is disabled or clamp(v) is the current
\* scale, and setPan(x, y) does so when pan is disabled or (x, y) is the
\* current translation; otherwise they return true and the Transform holds
\* the clamped scale, the new translation.
C18_SettersReportNoOps ==
    [][(svgElement = "element" /\ Displayed)
       => /\ lastOp' = "setZoom"
             => LET clamped == clampZoom(Self, lastArgs'.zoom)
                IN  IF ~options.zoomEnabled \/ StrictEq(clamped, currentZoom)
                    THEN lastRet' = "false" /\ Transform' = Transform
                    ELSE /\ lastRet' = "true"
                         /\ Transform' = [Transform EXCEPT !.scale = clamped]
          /\ lastOp' = "setPan"
             => IF ~options.panEnabled
                   \/ (StrictEq(lastArgs'.x, currentPan.x) /\ StrictEq(lastArgs'.y, currentPan.y))
                THEN lastRet' = "false" /\ Transform' = Transform
                ELSE /\ lastRet' = "true"
                     /\ Transform' = [Transform EXCEPT !.x = lastArgs'.x, !.y = lastArgs'.y]]_vars


\* C19: zoomBy(factor, cx?, cy?) returns false exactly when the clamped
\* product of scale and factor equals the current scale, and then the
\* Transform, translation included, is unchanged; otherwise it returns true
\* and the scale is the clamped value.
C19_ZoomByClamps ==
    [][lastOp' = "zoomBy" =>
          LET clamped == clampZoom(Self, Mul(currentZoom, lastArgs'.factor))
          IN  IF StrictEq(clamped, currentZoom)
              THEN lastRet' = "false" /\ Transform' = Transform
              ELSE lastRet' = "true" /\ currentZoom' = clamped]_vars


\* C20: when the element has no parent container, fit(), called directly or
\* by the timer, returns false and leaves scale, translation and the applied
\* style unchanged.
C20_MissingContainer ==
    [][(lastOp' \in {"fit", "timer"} /\ svgElement = "element" /\ ~dom.parent)
       => (lastRet' = "false" /\ Transform' = Transform /\ style' = style)]_vars

\* fit() is refused on a parentless element that was zoomed or panned before.
C20_Witness ==
    /\ lastOp = "fit" /\ lastRet = "false"
    /\ svgElement = "element" /\ ~dom.parent /\ Transform # Identity


\* C21: a mousedown received while not dragging starts a drag exactly when
\* the pressed button is the primary one; mouseup and mouseleave always end
\* the drag; a mousemove received while not dragging leaves the Transform and
\* the applied style unchanged.
C21_MousePanMachine ==
    [][/\ (lastOp' = "mousedown" /\ ~isDragging)
          => (isDragging' = (lastArgs'.event.button = 0))
       /\ (lastOp' \in {"mouseup", "mouseleave"}) => ~isDragging'
       /\ (lastOp' = "mousemove" /\ ~isDragging)
          => (Transform' = Transform /\ style' = style)]_vars

\* A whole drag: the button went down, a mousemove to (34, 23) panned the
\* element, and mouseup ended the drag.
C21_Witness ==
    /\ lastOp = "mouseup" /\ ~isDragging /\ steps = 3
    /\ lastMousePos = P(34, 23) /\ currentPan = P(4, 3)


\* C22: with pan enabled, a mousedown records its point and moves nothing,
\* every mousemove of the drag keeps translation minus pointer position as
\* it was and the scale as it was, and mouseup and mouseleave move nothing:
\* over the drag the translation changes by the last point minus the first,
\* with no clamping.
C22_DragAccumulates ==
    [][options.panEnabled =>
          /\ (lastOp' = "mousedown" /\ lastArgs'.event.button = 0)
             => /\ lastMousePos' = [x |-> lastArgs'.event.clientX, y |-> lastArgs'.event.clientY]
                /\ Transform' = Transform
          /\ (lastOp' = "mousemove" /\ isDragging)
             => /\ Sub(currentPan'.x, lastMousePos'.x) = Sub(currentPan.x, lastMousePos.x)
                /\ Sub(currentPan'.y, lastMousePos'.y) = Sub(currentPan.y, lastMousePos.y)
                /\ lastMousePos' = [x |-> lastArgs'.event.clientX, y |-> lastArgs'.event.clientY]
                /\ currentZoom' = currentZoom
          /\ (lastOp' \in {"mouseup", "mouseleave"}) => Transform' = Transform]_vars

\* A drag from (30, 20) to (-70, 28), as the last steps of a run, has moved
\* the element by (-100, 8), wholly out of its parent container.
C22_Witness ==
    /\ lastOp = "mousemove" /\ steps = 3 /\ isDragging /\ options.panEnabled
    /\ lastMousePos = P(-70, 28) /\ currentPan = P(-100, 8) /\ currentZoom = R(1)
    /\ style.transform = Transform /\ Displayed /\ dom.parent
    /\ Outside(DisplayedBox, ContainerBox)


\* C23: after any touchend the controller is not dragging and holds no pinch
\* baseline, and every touchmove handled after a touchend with no touchstart
\* in between leaves the Transform unchanged.
C23_TouchEndIdle ==
    [][/\ lastOp' = "touchend"
          => (~isDragging' /\ initialPinchDistance' = NULL /\ initialZoom' = NULL)
       /\ (lastOp' = "touchmove" /\ touchEnded /\ Displayed)
          => Transform' = Transform]_vars


\* C24: when the constructor returns, the Transform is {1, 0, 0}, nothing
\* has been fitted, and exactly one fit() is pending if fitOnLoad is set on a
\* live element (none otherwise); no later step schedules another and the
\* timer fires once; when it fires after destroy() the callback returns
\* false, does not throw, and leaves the Transform unchanged.
C24_DeferredFit ==
    [][/\ lastOp = "new"
          => /\ Transform = Identity /\ style.transform = Identity
             /\ timers = IF svgElement = "element" /\ options.fitOnLoad THEN {"fit"} ELSE {}
       /\ timers' \subseteq timers
       /\ lastOp' = "timer" => timers' = {}
       /\ (lastOp' = "timer" /\ destroys > 0)
          => (lastRet' = "false" /\ Transform' = Transform /\ style' = style)]_vars

\* The timer fires on a controller that was zoomed and then destroyed.
C24_Witness ==
    /\ lastOp = "timer" /\ lastRet = "false" /\ destroys > 0 /\ options.fitOnLoad
    /\ Displayed /\ dom.parent /\ Transform # Identity /\ timers = {}


\* C25: a controller constructed with mouseWheelZoomEnabled = false never
\* has a wheel listener, so no wheel event ever reaches it, and one
\* constructed with dblClickZoomEnabled = false never has a double-click
\* listener, whatever operations follow the construction.
C25_ConstructionGating ==
    /\ ~options.mouseWheelZoomEnabled
       => (Listening("svg", "wheel") = {} /\ lastOp # "wheel")
    /\ ~options.dblClickZoomEnabled
       => (Listening("svg", "dblclick") = {} /\ lastOp # "dblclick")

\* A controller built with both flags off, zoom on and its other listeners
\* registered, after three operations that zoomed it.
C25_Witness ==
    /\ ~options.mouseWheelZoomEnabled /\ ~options.dblClickZoomEnabled
    /\ options.zoomEnabled /\ Listening("svg", "touchstart") # {}
    /\ svgElement = "element" /\ Displayed /\ steps = 3
    /\ lastOp = "enableZoom" /\ currentZoom # R(1)


\* The wheel path is active: a wheel listener is registered, and every wheel
\* event it handles changes the scale unless the clamp keeps it where it is.
WheelActive ==
    \E l \in Listening("svg", "wheel") :
        \A e \in WheelEvents :
            LET delta == IF e.deltaY > 0 THEN Q(9, 10) ELSE Q(11, 10)
            IN  \/ StrictEq(clampZoom(Self, Mul(currentZoom, delta)), currentZoom)
                \/ Handler(l.cb.fn, Before, e).s.currentZoom # currentZoom

\* The mouse drag path is active: mousedown and mousemove listeners are
\* registered, and a primary-button mousedown followed by a mousemove to
\* another point changes the translation.
DragActive ==
    \E d \in Listening("svg", "mousedown"), m \in Listening("svg", "mousemove") :
        \A e \in {x \in DownEvents : x.button = 0}, mv \in MoveEvents :
            Handler(m.cb.fn, Handler(d.cb.fn, Before, e).s, mv).s.currentPan # currentPan

\* C26: right after enableZoom() on a live, displayed controller whose
\* mouseWheelZoomEnabled flag is set, the wheel path is active, and right
\* after enablePan() the mouse drag path is active, whichever way the
\* controller was constructed.
C26_RuntimeEnabling ==
    (svgElement = "element" /\ Displayed)
    => /\ (lastOp = "enableZoom" /\ options.mouseWheelZoomEnabled) => WheelActive
       /\ lastOp = "enablePan" => DragActive


\* C27: every wheel event and every double-click the controller handles has
\* its default action prevented, and a touch event has its default prevented
\* only when it is a one-touch gesture with pan enabled or a two-touch
\* gesture with zoom enabled.
C27_DefaultActionPolicy ==
    (svgElement = "element" /\ Displayed)
    => /\ lastOp \in {"wheel", "dblclick"} => prevented
       /\ (lastOp \in TouchEvents /\ prevented)
          => \/ Len(lastArgs.event.touches) = 1 /\ options.panEnabled
             \/ Len(lastArgs.event.touches) = 2 /\ options.zoomEnabled


\* C28: right after disablePan() on a live controller the element's cursor
\* is the default cursor, a drag being in progress or not.
C28_CursorAfterDisablePan ==
    (lastOp = "disablePan" /\ svgElement = "element" /\ Displayed)
    => style.cursor = "default"


\* The Transform fit() gives the element when nothing has transformed it
\* yet, as when the timer fires right after construction.
FitResult ==
    LET s == fit([Self EXCEPT !.style.transform = Identity]).s
    IN  [scale |-> s.currentZoom, x |-> s.currentPan.x, y |-> s.currentPan.y]

\* C29: when the fitOnLoad timer fires on a live, displayed controller with
\* a parent container, the Transform becomes the fit of the element in its
\* container, whatever calls and gestures came between construction and the
\* timer: nothing of them is left in the Transform.
C29_DeferredFitWins ==
    [][(lastOp' = "timer" /\ svgElement = "element" /\ Displayed /\ dom.parent)
       => (lastRet' = "true" /\ Transform' = FitResult)]_vars


\* C30: a two-touch touchmove that finds the baseline distance 0 or finds no
\* baseline leaves scale, translation and the applied style unchanged and
\* does not throw; a two-touch touchstart with zoom disabled records no
\* baseline; and no baseline is held after a touchend until the next
\* touchstart.
C30_DegeneratePinch ==
    [][/\ (/\ lastOp' = "touchmove" /\ Len(lastArgs'.event.touches) = 2
           /\ initialPinchDistance \in {NULL, R(0)})
          => (Transform' = Transform /\ style' = style /\ lastRet' = "undefined")
       /\ (/\ lastOp' = "touchstart" /\ Len(lastArgs'.event.touches) = 2
           /\ ~options.zoomEnabled)
          => (initialPinchDistance' = initialPinchDistance /\ initialZoom' = initialZoom)
       /\ touchEnded' => initialPinchDistance' = NULL]_vars

\* A pinch that started with both touches at one point, baseline distance 0,
\* receives a two-touch touchmove on a zoomed element.
C30_Witness ==
    /\ lastOp = "touchmove" /\ Len(lastArgs.event.touches) = 2 /\ steps = 3
    /\ initialPinchDistance = R(0) /\ initialZoom = currentZoom
    /\ options.zoomEnabled /\ prevented /\ currentZoom # R(1) /\ Displayed

====
